---- MODULE Spec2Model ----
(***************************************************************************)
(* A model of rustg: the Graph container of src/graph.rs (nodes, the id    *)
(* index, the links keyed by "source_target", the directed and weighted    *)
(* flags), its queries, and dijkstra_shortest of src/algo.rs.              *)
(*                                                                         *)
(* The graph is the state.  Every public operation is an action that       *)
(* records the call in op/args and its return value in ret.                *)
(* dijkstra_shortest is modelled one loop iteration per step, so that its  *)
(* loops can be observed; the other operations are one step each.          *)
(***************************************************************************)
EXTENDS Integers, Sequences, FiniteSets, TLC

VARIABLES
    nodes,        \* Graph.nodes: Vec<Node>, as a sequence (position i is nodes[i+1])
    nodes_map,    \* Graph.nodes_map: node id -> 0-based position in nodes
    links,        \* Graph.links: link key -> Link
    directed,     \* Graph.directed
    weighted,     \* Graph.weighted
    pc,           \* "idle", or the position inside dijkstra_shortest, or "panic"
    op,           \* the operation called last
    args,         \* its arguments
    ret,          \* its return value
    start,        \* dijkstra_shortest: start
    end,          \* dijkstra_shortest: end
    queue,        \* dijkstra_shortest: queue (HashSet<Node>)
    dist,         \* dijkstra_shortest: dist (id -> distance)
    prev,         \* dijkstra_shortest: prev (id -> previous id)
    c,            \* dijkstra_shortest: c, the cursor of the predecessor walk
    result,       \* dijkstra_shortest: result
    iters         \* iterations of the main loop of dijkstra_shortest started so far

graph_vars == <<nodes, nodes_map, links, directed, weighted>>
dijkstra_vars == <<start, end, queue, dist, prev, c, result, iters>>
vars == <<nodes, nodes_map, links, directed, weighted, pc, op, args, ret,
          start, end, queue, dist, prev, c, result, iters>>

(***************************************************************************)
(* Bounds of the model.                                                    *)
(***************************************************************************)
\* Most links a graph holds in the query specification.
MaxLinks == 3
\* Most links a graph holds in the path-search specification.
MaxPathLinks == 3
\* Iterations of dijkstra's main loop explored beyond one per node.
LoopSlack == 1

\* Ids offered to the construction operations: with "_" the key separator,
\* these give distinct ordered pairs with the same link key.
BuildIds == {"", "_", "__"}
\* Names offered to add_node (a placeholder node has the empty name).
Names == {"", "n"}
\* Ids offered in the query specification.
QueryIds == {"a", "b", "c"}
\* Ids offered in the path-search specification (the empty string is an id).
PathIds == <<"", "a", "b">>
\* Link weights offered in the path-search specification (none is negative).
Weights == {0, 1}

(***************************************************************************)
(* Values.                                                                 *)
(***************************************************************************)
\* Node::new
Node(id, name) == [id |-> id, name |-> name]

Link(source, target, label, weight) ==
    [source |-> source, target |-> target, label |-> label, weight |-> weight]

\* Option<T>: None is the empty sequence, Some(x) is <<x>>.
None == <<>>
Some(x) == <<x>>

\* The elements of a Vec.
Range(f) == {f[x] : x \in DOMAIN f}

\* A HashMap with no entry.
EmptyMap == <<>>

\* HashMap::insert
Insert(m, k, v) == (k :> v) @@ m

\* HashMap::contains_key
contains_key(m, k) == k \in DOMAIN m

\* The Graph as one value.
GraphOf(ns, nm, ls, d, w) ==
    [nodes |-> ns, nodes_map |-> nm, links |-> ls, directed |-> d, weighted |-> w]

G == GraphOf(nodes, nodes_map, links, directed, weighted)

\* Graph::new
new == GraphOf(<<>>, EmptyMap, EmptyMap, TRUE, FALSE)

\* Result<bool, String>
Ok == [ok |-> TRUE, err |-> ""]
Err(kind) == [ok |-> FALSE, err |-> kind]

(***************************************************************************)
(* Construction.                                                           *)
(***************************************************************************)
make_link_key(source, target) == source \o "_" \o target

\* add_node as it would be if it looked for an equal node (id and name)
\* instead of an equal id.
add_node_by_value(g, n) ==
    IF n \in Range(g.nodes)
    THEN [res |-> Err("DuplicateNode"), g |-> g]
    ELSE [res |-> Ok,
          g |-> [g EXCEPT !.nodes_map = Insert(@, n.id, Len(g.nodes)),
                          !.nodes = Append(@, n)]]

\* add_node: the result and the graph after the call.
add_node(g, n) ==
    IF contains_key(g.nodes_map, n.id)
    THEN [res |-> Err("DuplicateNode"), g |-> g]
    ELSE [res |-> Ok,
          g |-> [g EXCEPT !.nodes_map = Insert(@, n.id, Len(g.nodes)),
                          !.nodes = Append(@, n)]]

\* add_link as it would be if it stored the link without inserting the
\* endpoints that are no nodes yet.
add_link_no_placeholder(g, l) ==
    LET key == make_link_key(l.source, l.target)
    IN  IF contains_key(g.links, key)
        THEN [res |-> Err("DuplicateLink"), g |-> g]
        ELSE [res |-> Ok, g |-> [g EXCEPT !.links = Insert(@, key, l)]]

\* add_link: the result and the graph after the call.  The two add_node calls
\* propagate their error with `?`.
add_link(g, l) ==
    LET r1 == IF ~contains_key(g.nodes_map, l.source)
              THEN add_node(g, Node(l.source, ""))
              ELSE [res |-> Ok, g |-> g]
    IN  IF ~r1.res.ok THEN r1
        ELSE
        LET r2 == IF ~contains_key(r1.g.nodes_map, l.target)
                  THEN add_node(r1.g, Node(l.target, ""))
                  ELSE [res |-> Ok, g |-> r1.g]
        IN  IF ~r2.res.ok THEN r2
            ELSE
            LET key == make_link_key(l.source, l.target)
            IN  IF contains_key(r2.g.links, key)
                THEN [res |-> Err("DuplicateLink"), g |-> r2.g]
                ELSE [res |-> Ok, g |-> [r2.g EXCEPT !.links = Insert(@, key, l)]]

(***************************************************************************)
(* Lookups.                                                                *)
(***************************************************************************)
get_node(g, id) ==
    IF contains_key(g.nodes_map, id)
    THEN Some(g.nodes[g.nodes_map[id] + 1])
    ELSE None

get_link(g, source, target) ==
    LET key == make_link_key(source, target)
    IN  IF contains_key(g.links, key) THEN Some(g.links[key]) ELSE None

(***************************************************************************)
(* Adjacency.                                                              *)
(***************************************************************************)
\* The step of the fold as it would be if it never mirrored a link.
SetEntry_one_way(g, rows, l) ==
    [rows EXCEPT ![g.nodes_map[l.source]][g.nodes_map[l.target]] = TRUE]

\* One step of the fold of to_matrix: the rows with link l entered.
SetEntry(g, rows, l) ==
    LET s == g.nodes_map[l.source]
        t == g.nodes_map[l.target]
        rows1 == [rows EXCEPT ![s][t] = TRUE]
    IN  IF ~g.directed THEN [rows1 EXCEPT ![t][s] = TRUE] ELSE rows1

\* The fold of to_matrix over the links still to visit (the HashMap's
\* iteration order is unspecified; the entries set do not depend on it).
RECURSIVE FoldLinks(_, _, _)
FoldLinks(g, rows, keys) ==
    IF keys = {} THEN rows
    ELSE LET k == CHOOSE x \in keys : TRUE
         IN  FoldLinks(g, SetEntry(g, rows, g.links[k]), keys \ {k})

\* to_matrix: rows and columns are 0-based positions.
to_matrix(g) ==
    LET N == Len(g.nodes)
    IN  FoldLinks(g, [i \in 0..(N - 1) |-> [j \in 0..(N - 1) |-> FALSE]],
                  DOMAIN g.links)

\* Whether to_matrix indexes nodes_map with an id it does not hold.
to_matrix_panics(g) ==
    \E k \in DOMAIN g.links :
        \/ ~contains_key(g.nodes_map, g.links[k].source)
        \/ ~contains_key(g.nodes_map, g.links[k].target)

\* filter_map over one row, in position order, from position idx on.
RECURSIVE RowNodes(_, _, _)
RowNodes(g, row, idx) ==
    IF idx >= Len(g.nodes) THEN <<>>
    ELSE (IF row[idx] THEN <<g.nodes[idx + 1]>> ELSE <<>>)
         \o RowNodes(g, row, idx + 1)

direct_connected(g, source_id) ==
    IF ~contains_key(g.nodes_map, source_id) THEN <<>>
    ELSE LET m == to_matrix(g)
             source_idx == g.nodes_map[source_id]
         IN  RowNodes(g, m[source_idx], 0)

(***************************************************************************)
(* Degrees.  Each returns its value and the graph after the call.          *)
(***************************************************************************)
\* The restore of the flag left out.
restore_directed_skipped(g, cur_directed) == g

\* self.directed = cur_directed
restore_directed(g, cur_directed) == [g EXCEPT !.directed = cur_directed]

\* indegree as it would be if it read the matrix of the current view.
indegree_current_view(g, node_id) ==
    IF ~contains_key(g.nodes_map, node_id) THEN [val |-> 0, g |-> g]
    ELSE LET node_idx == g.nodes_map[node_id]
             m == to_matrix(g)
         IN  [val |-> Cardinality({i \in DOMAIN m : m[i][node_idx]}), g |-> g]

indegree(g, node_id) ==
    IF ~contains_key(g.nodes_map, node_id) THEN [val |-> 0, g |-> g]
    ELSE LET node_idx == g.nodes_map[node_id]
             cur_directed == g.directed
             g1 == IF ~g.directed THEN [g EXCEPT !.directed = TRUE] ELSE g
             m == to_matrix(g1)
         IN  [val |-> Cardinality({i \in DOMAIN m : m[i][node_idx]}),
              g |-> restore_directed(g1, cur_directed)]

outdegree(g, node_id) ==
    IF ~contains_key(g.nodes_map, node_id) THEN [val |-> 0, g |-> g]
    ELSE LET node_idx == g.nodes_map[node_id]
             cur_directed == g.directed
             g1 == IF ~g.directed THEN [g EXCEPT !.directed = TRUE] ELSE g
             m == to_matrix(g1)
         IN  [val |-> Cardinality({j \in DOMAIN m[node_idx] : m[node_idx][j]}),
              g |-> restore_directed(g1, cur_directed)]

degree_centrality(g, node_id) ==
    LET i == indegree(g, node_id)
        o == outdegree(i.g, node_id)
    IN  [val |-> i.val + o.val, g |-> o.g]

(***************************************************************************)
(* Connected components.                                                   *)
(***************************************************************************)
\* The orders in which a HashMap or HashSet may iterate over the elements S.
RECURSIVE Orders(_)
Orders(S) ==
    IF S = {} THEN {<<>>}
    ELSE UNION {{<<x>> \o o : o \in Orders(S \ {x})} : x \in S}

\* The inner loop as it would be without the filter on openset.
absorb_unfiltered(g, start_node, openset, component) ==
    LET direct_connected_nodes == direct_connected(g, start_node.id)
    IN  [openset |-> openset \ Range(direct_connected_nodes),
         component |-> component \o direct_connected_nodes]

\* The inner loop: absorb the direct neighbours of start_node that are still
\* in openset, until there are none.
RECURSIVE absorb(_, _, _, _)
absorb(g, start_node, openset, component) ==
    LET direct_connected_nodes ==
            SelectSeq(direct_connected(g, start_node.id), LAMBDA n : n \in openset)
    IN  IF Len(direct_connected_nodes) > 0
        THEN absorb(g, start_node, openset \ Range(direct_connected_nodes),
                    component \o direct_connected_nodes)
        ELSE [openset |-> openset, component |-> component]

\* The outer loop from one seed on: every components map it may end with
\* (the next seed is whichever node openset.iter() yields first).
RECURSIVE components_from(_, _, _, _)
components_from(g, start_node, openset, components) ==
    LET a == absorb(g, start_node, openset \ {start_node}, <<start_node>>)
        components1 == Insert(components, start_node.id, a.component)
    IN  IF a.openset = {} THEN {components1}
        ELSE UNION {components_from(g, n, a.openset, components1) : n \in a.openset}

\* connected_components: every (value, graph after the call) it may return.
connected_components(g) ==
    LET cur_directed == g.directed
        g1 == [g EXCEPT !.directed = FALSE]
    IN  IF Len(g1.nodes) = 0
        THEN {[val |-> <<>>, g |-> restore_directed(g1, cur_directed)]}
        ELSE UNION {
               {[val |-> [i \in 1..Len(o) |-> components[o[i]]],
                 g |-> restore_directed(g1, cur_directed)]
                  : o \in Orders(DOMAIN components)}
               : components \in components_from(g1, g1.nodes[1], Range(g1.nodes),
                                                EmptyMap)}

(***************************************************************************)
(* Shortest path (src/algo.rs).                                            *)
(***************************************************************************)
\* f64::INFINITY, as a value no finite distance takes.
INFINITY == -1

\* a < b on distances
f_lt(a, b) == a # INFINITY /\ (b = INFINITY \/ a < b)

\* a + w on distances (w finite)
f_add(a, w) == IF a = INFINITY THEN INFINITY ELSE a + w

\* The fold of min_dist_node over the nodes of the queue in one order.
RECURSIVE fold_min(_, _, _)
fold_min(order, min_node, d) ==
    IF order = <<>> THEN min_node
    ELSE LET node == Head(order)
             current_min_dist == IF contains_key(d, min_node) THEN d[min_node]
                                 ELSE INFINITY
         IN  fold_min(Tail(order),
                      IF f_lt(d[node.id], current_min_dist) THEN node.id ELSE min_node,
                      d)

\* min_dist_node: what it may return, over the orders the HashSet may iterate in.
min_dist_node(q, d) == {fold_min(o, "", d) : o \in Orders(q)}

\* The cost of an edge as it would be if the weighted flag were ignored.
edge_cost_unit(g, min_node, n) == 1

\* What the relaxation adds to dist[min_node] for neighbour n.
edge_cost(g, min_node, n) ==
    IF g.weighted THEN get_link(g, min_node, n.id)[1].weight ELSE 1

\* The for_each over the direct neighbours ns of min_node: whether it panics
\* (the unwrap of an absent link), and dist and prev after it.
RECURSIVE relax(_, _, _, _, _, _)
relax(g, min_node, ns, q, d, p) ==
    IF ns = <<>> THEN [panic |-> FALSE, dist |-> d, prev |-> p]
    ELSE LET n == Head(ns)
         IN  IF n \notin q THEN relax(g, min_node, Tail(ns), q, d, p)
             ELSE IF g.weighted /\ get_link(g, min_node, n.id) = None
             THEN [panic |-> TRUE, dist |-> d, prev |-> p]
             ELSE LET alt == f_add(d[min_node], edge_cost(g, min_node, n))
                  IN  IF f_lt(alt, d[n.id])
                      THEN relax(g, min_node, Tail(ns), q,
                                 Insert(d, n.id, alt), Insert(p, n.id, min_node))
                      ELSE relax(g, min_node, Tail(ns), q, d, p)

(***************************************************************************)
(* The state machine: callers.                                             *)
(***************************************************************************)
Init ==
    /\ nodes = new.nodes
    /\ nodes_map = new.nodes_map
    /\ links = new.links
    /\ directed = new.directed
    /\ weighted = new.weighted
    /\ pc = "idle"
    /\ op = "new"
    /\ args = <<>>
    /\ ret = <<>>
    /\ start = ""
    /\ end = ""
    /\ queue = {}
    /\ dist = EmptyMap
    /\ prev = EmptyMap
    /\ c = ""
    /\ result = <<>>
    /\ iters = 0

\* The graph after a call.
SetGraph(g) ==
    /\ nodes' = g.nodes
    /\ nodes_map' = g.nodes_map
    /\ links' = g.links
    /\ directed' = g.directed
    /\ weighted' = g.weighted

\* A call that runs to completion in one step.
Returns(name, a, r) ==
    /\ pc' = "idle"
    /\ op' = name
    /\ args' = a
    /\ ret' = r
    /\ UNCHANGED dijkstra_vars

AddNode(id, name) ==
    /\ pc = "idle"
    /\ LET r == add_node(G, Node(id, name))
       IN  /\ SetGraph(r.g)
           /\ Returns("add_node", <<id, name>>, r.res)

AddLink(source, target, weight) ==
    /\ pc = "idle"
    /\ LET r == add_link(G, Link(source, target, "", weight))
       IN  /\ SetGraph(r.g)
           /\ Returns("add_link", <<source, target, weight>>, r.res)

\* The caller assigns the public field directed.
SetDirected(b) ==
    /\ pc = "idle"
    /\ SetGraph([G EXCEPT !.directed = b])
    /\ Returns("set_directed", <<b>>, <<>>)

\* A call that aborts the process.
Panics(name, a) ==
    /\ pc' = "panic"
    /\ op' = name
    /\ args' = a
    /\ ret' = <<>>
    /\ UNCHANGED graph_vars
    /\ UNCHANGED dijkstra_vars

ToMatrix ==
    /\ pc = "idle"
    /\ IF to_matrix_panics(G) THEN Panics("to_matrix", <<>>)
       ELSE /\ UNCHANGED graph_vars
            /\ Returns("to_matrix", <<>>, to_matrix(G))

DirectConnected(id) ==
    /\ pc = "idle"
    /\ IF contains_key(nodes_map, id) /\ to_matrix_panics(G)
       THEN Panics("direct_connected", <<id>>)
       ELSE /\ UNCHANGED graph_vars
            /\ Returns("direct_connected", <<id>>, direct_connected(G, id))

Indegree(id) ==
    /\ pc = "idle"
    /\ IF contains_key(nodes_map, id) /\ to_matrix_panics(G)
       THEN Panics("indegree", <<id>>)
       ELSE LET r == indegree(G, id)
            IN  /\ SetGraph(r.g)
                /\ Returns("indegree", <<id>>, r.val)

Outdegree(id) ==
    /\ pc = "idle"
    /\ IF contains_key(nodes_map, id) /\ to_matrix_panics(G)
       THEN Panics("outdegree", <<id>>)
       ELSE LET r == outdegree(G, id)
            IN  /\ SetGraph(r.g)
                /\ Returns("outdegree", <<id>>, r.val)

DegreeCentrality(id) ==
    /\ pc = "idle"
    /\ IF contains_key(nodes_map, id) /\ to_matrix_panics(G)
       THEN Panics("degree_centrality", <<id>>)
       ELSE LET r == degree_centrality(G, id)
            IN  /\ SetGraph(r.g)
                /\ Returns("degree_centrality", <<id>>, r.val)

ConnectedComponents ==
    /\ pc = "idle"
    /\ IF Len(nodes) > 0 /\ to_matrix_panics(G)
       THEN Panics("connected_components", <<>>)
       ELSE \E r \in connected_components(G) :
                /\ SetGraph(r.g)
                /\ Returns("connected_components", <<>>, r.val)

(***************************************************************************)
(* Construction of a graph from caller-supplied ids and names.             *)
(***************************************************************************)
Next ==
    \/ \E id \in BuildIds, name \in Names : AddNode(id, name)
    \/ \E s \in BuildIds, t \in BuildIds : AddLink(s, t, 1)

Spec == Init /\ [][Next]_vars

(***************************************************************************)
(* Construction followed by queries, on graphs of at most MaxLinks links.  *)
(***************************************************************************)
NextQuery ==
    \/ \E id \in QueryIds : AddNode(id, "")
    \/ /\ Cardinality(DOMAIN links) < MaxLinks
       /\ \E s \in QueryIds, t \in QueryIds : AddLink(s, t, 1)
    \/ \E b \in BOOLEAN : SetDirected(b)
    \/ ToMatrix
    \/ \E id \in QueryIds : DirectConnected(id)
    \/ \E id \in QueryIds : Indegree(id)
    \/ \E id \in QueryIds : Outdegree(id)
    \/ \E id \in QueryIds : DegreeCentrality(id)
    \/ ConnectedComponents

SpecQuery == Init /\ [][NextQuery]_vars

(***************************************************************************)
(* dijkstra_shortest, one loop iteration per step.                         *)
(***************************************************************************)
\* The call: the early return, or the initial queue, dist and prev.
DijkstraCall(s, e) ==
    /\ pc = "idle"
    /\ UNCHANGED graph_vars
    /\ IF ~contains_key(nodes_map, s) \/ ~contains_key(nodes_map, e)
       THEN Returns("dijkstra_shortest", <<s, e>>, <<>>)
       ELSE /\ pc' = "loop"
            /\ op' = "dijkstra_shortest"
            /\ args' = <<s, e>>
            /\ ret' = <<>>
            /\ start' = s
            /\ end' = e
            /\ queue' = Range(nodes)
            /\ dist' = [id \in {n.id : n \in Range(nodes)} |->
                           IF id = s THEN 0 ELSE INFINITY]
            /\ prev' = EmptyMap
            /\ c' = ""
            /\ result' = <<>>
            /\ iters' = 0

\* Leaving the main loop (its condition is false, or a break).
ToWalk ==
    /\ pc' = "walk"
    /\ c' = end
    /\ UNCHANGED <<queue, dist, prev>>

\* One iteration of `while queue.len() > 0`.
DijkstraLoop ==
    /\ pc = "loop"
    /\ iters < Len(nodes) + LoopSlack
    /\ iters' = iters + 1
    /\ UNCHANGED <<graph_vars, op, args, ret, start, end, result>>
    /\ IF queue = {} THEN ToWalk
       ELSE \E min_node \in min_dist_node(queue, dist) :
            IF min_node = end THEN ToWalk
            ELSE IF get_node(G, min_node) = None THEN ToWalk
            ELSE LET n == get_node(G, min_node)[1]
                     queue1 == queue \ {n}
                     r == relax(G, min_node, direct_connected(G, min_node),
                                queue1, dist, prev)
                 IN  /\ pc' = IF r.panic THEN "panic" ELSE "loop"
                     /\ queue' = queue1
                     /\ dist' = r.dist
                     /\ prev' = r.prev
                     /\ c' = c

\* dijkstra_shortest returns r.
DijkstraReturn(r) ==
    /\ pc' = "idle"
    /\ ret' = r
    /\ start' = ""
    /\ end' = ""
    /\ queue' = {}
    /\ dist' = EmptyMap
    /\ prev' = EmptyMap
    /\ c' = ""
    /\ result' = <<>>
    /\ iters' = 0

\* One iteration of the loop that builds the path from prev.
DijkstraWalk ==
    /\ pc = "walk"
    /\ UNCHANGED <<graph_vars, op, args>>
    /\ IF ~contains_key(prev, c) /\ c # start THEN DijkstraReturn(result)
       ELSE IF get_node(G, c) = None
       THEN /\ pc' = "panic"
            /\ UNCHANGED <<ret, dijkstra_vars>>
       ELSE LET result1 == <<get_node(G, c)[1]>> \o result
            IN  IF contains_key(prev, c) /\ c # start
                THEN /\ c' = prev[c]
                     /\ result' = result1
                     /\ UNCHANGED <<pc, ret, start, end, queue, dist, prev, iters>>
                ELSE DijkstraReturn(result1)

(***************************************************************************)
(* Path search on every graph of at most MaxPathLinks links over PathIds.  *)
(* dijkstra_shortest only reads the graph, so the graph is drawn once: the *)
(* nodes of a subset of PathIds are inserted with add_node, then links     *)
(* with add_link, and the caller sets the two flags.                       *)
(***************************************************************************)
\* The graph after add_node for the ids of PathIds from position i on that are in S.
RECURSIVE with_nodes(_, _, _)
with_nodes(g, S, i) ==
    IF i > Len(PathIds) THEN g
    ELSE with_nodes(IF PathIds[i] \in S THEN add_node(g, Node(PathIds[i], "")).g ELSE g,
                    S, i + 1)

\* The graphs that at most k further add_link calls between nodes of g lead to.
RECURSIVE with_links(_, _)
with_links(g, k) ==
    IF k = 0 THEN {g}
    ELSE {g} \cup UNION {with_links(add_link(g, Link(n.id, m.id, "", w)).g, k - 1) :
                            n \in Range(g.nodes), m \in Range(g.nodes), w \in Weights}

PathGraphs ==
    UNION {with_links(with_nodes(new, S, 1), MaxPathLinks) : S \in SUBSET Range(PathIds)}

InitPath ==
    /\ \E g \in PathGraphs, d \in BOOLEAN, w \in BOOLEAN :
           /\ nodes = g.nodes
           /\ nodes_map = g.nodes_map
           /\ links = g.links
           /\ directed = d
           /\ weighted = w
    /\ pc = "idle"
    /\ op = "new"
    /\ args = <<>>
    /\ ret = <<>>
    /\ start = ""
    /\ end = ""
    /\ queue = {}
    /\ dist = EmptyMap
    /\ prev = EmptyMap
    /\ c = ""
    /\ result = <<>>
    /\ iters = 0

NextPath ==
    \/ \E s \in Range(PathIds), e \in Range(PathIds) : DijkstraCall(s, e)
    \/ DijkstraLoop
    \/ DijkstraWalk

SpecPath == InitPath /\ [][NextPath]_vars

(***************************************************************************)
(* Properties.                                                             *)
(***************************************************************************)
NodeIds == {nodes[i].id : i \in 1..Len(nodes)}

\* The node of the collection with this id.
NodeOf(id) == CHOOSE n \in Range(nodes) : n.id = id

\* A link source -> target is stored.
HasLink(source, target) ==
    \E k \in DOMAIN links : links[k].source = source /\ links[k].target = target

LinkWeight(source, target) ==
    links[CHOOSE k \in DOMAIN links :
              links[k].source = source /\ links[k].target = target].weight

\* u and v are adjacent in the current view.
Adjacent(u, v) == HasLink(u, v) \/ (~directed /\ HasLink(v, u))

\* The cost of the step u -> v of a path: 1 when the graph is not weighted,
\* else the stored weight of the link u -> v, or, when only v -> u is stored
\* (undirected view), of that link.
StepCost(u, v) ==
    IF ~weighted THEN 1
    ELSE IF HasLink(u, v) THEN LinkWeight(u, v) ELSE LinkWeight(v, u)

Min(S) == CHOOSE x \in S : \A y \in S : x <= y

\* The paths from s to e in the current view that visit no node twice, as
\* sequences of ids (no weight is negative, so a path of least cost is among
\* them whenever there is a path at all).
Paths(s, e) ==
    {p \in UNION {Orders(S) : S \in SUBSET NodeIds} :
        /\ Len(p) >= 1
        /\ p[1] = s
        /\ p[Len(p)] = e
        /\ \A i \in 1..(Len(p) - 1) : Adjacent(p[i], p[i + 1])}

\* The cost of a path given as a sequence of ids.
RECURSIVE PathCost(_)
PathCost(p) ==
    IF Len(p) <= 1 THEN 0
    ELSE StepCost(p[1], p[2]) + PathCost(Tail(p))

\* The ids of a sequence of nodes.
Ids(path) == [i \in 1..Len(path) |-> path[i].id]

DijkstraReturned == pc = "idle" /\ op = "dijkstra_shortest"

C5_NoPanic == pc # "panic"

\* C6: every iteration of the main loop of dijkstra_shortest that does not
\* leave the loop removes a node from the open set, and the loop runs at most
\* one iteration per node.
C6_LoopProgress ==
    [][(pc = "loop" /\ pc' = "loop") =>
          /\ queue' # queue
          /\ queue' \subseteq queue
          /\ iters' <= Len(nodes)]_vars

\* The nodes joined to u by a chain of stored links taken in either direction.
RECURSIVE Chain(_)
Chain(S) ==
    LET T == S \cup {v \in NodeIds : \E u \in S : HasLink(u, v) \/ HasLink(v, u)}
    IN  IF T = S THEN S ELSE Chain(T)

\* u and v are in the same returned component.
SameComponent(u, v) ==
    \E i \in 1..Len(ret) :
        /\ \E j \in 1..Len(ret[i]) : ret[i][j].id = u
        /\ \E j \in 1..Len(ret[i]) : ret[i][j].id = v

ComponentsReturned == pc = "idle" /\ op = "connected_components"

\* C2: two nodes are in the same component returned by connected_components
\* if and only if a chain of stored links, taken in either direction, joins them.
C2_TrueComponents ==
    ComponentsReturned =>
        \A u \in NodeIds, v \in NodeIds : SameComponent(u, v) <=> v \in Chain({u})

\* C3: add_link is rejected with DuplicateLink if and only if a link with the
\* same ordered pair (source, target) is already stored.
C3_DuplicateLinkIff ==
    [][op' = "add_link" =>
          (ret' = Err("DuplicateLink") <=> HasLink(args'[1], args'[2]))]_vars

\* C4: add_node(n) returns an error if and only if a node with id n.id is in
\* the graph, and then nodes and the id index are unchanged; otherwise it
\* appends n at the last position, records that position for n.id, and leaves
\* the earlier nodes and their recorded positions unchanged.
C4_AddNode ==
    [][op' = "add_node" =>
          LET id == args'[1]
              name == args'[2]
          IN  /\ ~ret'.ok <=> id \in NodeIds
              /\ ~ret'.ok => nodes' = nodes /\ nodes_map' = nodes_map
              /\ ret'.ok =>
                    /\ nodes' = Append(nodes, Node(id, name))
                    /\ DOMAIN nodes_map' = DOMAIN nodes_map \cup {id}
                    /\ nodes_map'[id] = Len(nodes') - 1
                    /\ \A k \in DOMAIN nodes_map : nodes_map'[k] = nodes_map[k]]_vars

\* add_node was rejected for an id whose node has another name.
C4_Witness ==
    /\ op = "add_node"
    /\ ~ret.ok
    /\ \E n \in Range(nodes) : n.id = args[1] /\ n.name # args[2]
    /\ Len(nodes) >= 2

\* C7: a rejected add_node or add_link leaves nodes, the id index, the links
\* and both flags as they were.
C7_RejectedUnmodified ==
    [][(op' \in {"add_node", "add_link"} /\ ~ret'.ok) => UNCHANGED graph_vars]_vars

\* C8: the components returned by connected_components are a partition of the
\* nodes: every node is at exactly one place of exactly one component, no
\* component is empty, no returned node is foreign, and the list is empty if
\* and only if the graph has no nodes.
C8_Partition ==
    ComponentsReturned =>
        /\ \A n \in Range(nodes) :
               Cardinality({p \in {<<i, j>> : i \in 1..Len(ret), j \in 1..Len(nodes)} :
                               p[2] <= Len(ret[p[1]]) /\ ret[p[1]][p[2]] = n}) = 1
        /\ \A i \in 1..Len(ret) : Len(ret[i]) > 0
        /\ \A i \in 1..Len(ret) : \A j \in 1..Len(ret[i]) : ret[i][j] \in Range(nodes)
        /\ ret = <<>> <=> nodes = <<>>

\* Three nodes came back as two components.
C8_Witness ==
    /\ ComponentsReturned
    /\ Len(nodes) = 3
    /\ Len(ret) = 2

QueryOps == {"connected_components", "indegree", "outdegree", "degree_centrality"}

\* C9: connected_components, indegree, outdegree and degree_centrality leave
\* the directed flag, the nodes, the id index, the links and the weighted flag
\* as they were; the directed flag changes only when the caller assigns it,
\* to the value assigned.
C9_FlagRestored ==
    [][/\ op' \in QueryOps => UNCHANGED graph_vars
       /\ directed' # directed => op' = "set_directed" /\ directed' = args'[1]]_vars

\* connected_components returned components of a graph whose flag says directed.
C9_Witness ==
    /\ ComponentsReturned
    /\ directed
    /\ Len(ret) > 0
    /\ links # EmptyMap

InCount(id) == Cardinality({k \in DOMAIN links : links[k].target = id})
OutCount(id) == Cardinality({k \in DOMAIN links : links[k].source = id})

\* C10: whatever the directed flag, indegree(id) is the number of stored links
\* with target id, outdegree(id) the number with source id, both are 0 for an
\* id that is no node, and degree_centrality(id) is their sum.
C10_Degrees ==
    /\ op = "indegree" =>
          ret = InCount(args[1]) /\ (args[1] \notin NodeIds => ret = 0)
    /\ op = "outdegree" =>
          ret = OutCount(args[1]) /\ (args[1] \notin NodeIds => ret = 0)
    /\ op = "degree_centrality" =>
          ret = InCount(args[1]) + OutCount(args[1])

\* degree_centrality counted a self-link twice on a graph in undirected view.
C10_Witness ==
    /\ op = "degree_centrality"
    /\ ~directed
    /\ HasLink(args[1], args[1])
    /\ ret = 3

\* C11: to_matrix returns an N x N matrix, N the number of nodes, whose entry
\* [i][j] is true if and only if a stored link goes from the node at position
\* i to the node at position j, or, in undirected view, between them in either
\* direction; direct_connected(id) returns the nodes at the true entries of
\* the row of id, each once, in storage order, and nothing for an id that is
\* no node.
C11_Adjacency ==
    /\ (pc = "idle" /\ op = "to_matrix") =>
          LET N == Len(nodes)
          IN  /\ DOMAIN ret = 0..(N - 1)
              /\ \A i \in 0..(N - 1) :
                    /\ DOMAIN ret[i] = 0..(N - 1)
                    /\ \A j \in 0..(N - 1) :
                          ret[i][j] <=> Adjacent(nodes[i + 1].id, nodes[j + 1].id)
    /\ (pc = "idle" /\ op = "direct_connected") =>
          IF args[1] \notin NodeIds THEN ret = <<>>
          ELSE ret = SelectSeq(nodes, LAMBDA n : Adjacent(args[1], n.id))

\* direct_connected returned two nodes in undirected view, the first of them
\* reached through a link stored in the other direction only.
C11_Witness ==
    /\ pc = "idle"
    /\ op = "direct_connected"
    /\ ~directed
    /\ Len(ret) = 2
    /\ ~HasLink(args[1], ret[1].id)

\* What holds of the graph after any sequence of add_node and add_link calls.
GraphInvariant ==
    /\ \A i \in 1..Len(nodes), j \in 1..Len(nodes) :
           nodes[i].id = nodes[j].id => i = j
    /\ DOMAIN nodes_map = NodeIds
    /\ Cardinality(DOMAIN nodes_map) = Len(nodes)
    /\ \A id \in DOMAIN nodes_map :
           /\ nodes_map[id] \in 0..(Len(nodes) - 1)
           /\ nodes[nodes_map[id] + 1].id = id
    /\ \A k \in DOMAIN links :
           links[k].source \in NodeIds /\ links[k].target \in NodeIds
    /\ \A k1 \in DOMAIN links, k2 \in DOMAIN links :
           (links[k1].source = links[k2].source /\ links[k1].target = links[k2].target)
               => k1 = k2

\* C12: after any sequence of add_node and add_link calls, successful or
\* rejected, node ids are pairwise distinct, the id index has one entry per
\* node and maps each id to the position of its node, the source and target
\* of every stored link are ids of nodes, and no two stored links have the
\* same ordered pair; a node that add_link adds is an endpoint of its link and
\* has the empty name; the node count and the link count never decrease.
C12_GraphInvariant ==
    [][/\ GraphInvariant
       /\ GraphInvariant'
       /\ Len(nodes') >= Len(nodes)
       /\ Cardinality(DOMAIN links') >= Cardinality(DOMAIN links)
       /\ op' = "add_link" =>
             \A i \in (Len(nodes) + 1)..Len(nodes') :
                 nodes'[i].name = "" /\ nodes'[i].id \in {args'[1], args'[2]}]_vars

\* A rejected add_link on a graph of a named node, placeholder nodes and two links.
C12_Witness ==
    /\ op = "add_link"
    /\ ~ret.ok
    /\ Len(nodes) = 3
    /\ Cardinality(DOMAIN links) >= 2
    /\ \E n \in Range(nodes) : n.name = "n"
    /\ \E n \in Range(nodes) : n.name = ""

====
